---- MODULE Spec2Model ----
(***************************************************************************)
(* Callback-interface support of uniffi_macros                             *)
(* (uniffi_macros/src/export/callback_interface.rs).                       *)
(*                                                                         *)
(* The module models                                                       *)
(*   - the macro expansion: trait_impl / gen_method_impl / metadata_items  *)
(*     applied to the items of an exported trait;                          *)
(*   - the code the expansion generates: the proxy struct with its handle, *)
(*     its Drop impl, its forwarding methods and its FfiConverter impl     *)
(*     (lower, write, try_lift, try_read);                                 *)
(*   - the foreign side reached through invoke_callback, as environment.   *)
(***************************************************************************)
EXTENDS Integers, Sequences, FiniteSets, TLC

(***************************************************************************)
(* Bounds of the model.                                                    *)
(***************************************************************************)
MaxMethods == 2      \* items of the exported trait
MaxProxies == 2      \* proxies lifted in one run
MaxBufLen  == 9      \* bytes of the buffer handed to try_read

Threads    == {"t1", "t2"}
ByteValues == {0, 1, 255}
Statuses   == {"SUCCESS", "ERROR", "UNEXPECTED_FAILURE"}

(***************************************************************************)
(* 64-bit values.  A u64 is kept as its four 16-bit limbs, most            *)
(* significant first, so that every 64-bit value has a representation.     *)
(***************************************************************************)
U64(n) == <<0, 0, 0, n>>

LiftValues == {U64(0), U64(42)}

\* bytes::Buf::get_u64: the next eight bytes read as a big-endian u64
get_u64(buf) ==
    << buf[1] * 256 + buf[2], buf[3] * 256 + buf[4],
       buf[5] * 256 + buf[6], buf[7] * 256 + buf[8] >>

\* uniffi::check_remaining(buf, num_bytes): Err when fewer bytes remain
check_remaining(buf, num_bytes) == Len(buf) >= num_bytes

(***************************************************************************)
(* Macro expansion.                                                        *)
(*                                                                         *)
(* An item of the trait is an ImplItem: a Method carrying an FnSignature   *)
(* (kind, index, receiver, ident, params) or a Constructor.                *)
(***************************************************************************)
MethodNames == <<"a", "b", "c", "d">>

DeclaredParams(i) == 1 + ((i - 1) % 2)

ParamCounts == {1, 2}

TraitMethodItem(i, recv, np) ==
    [item |-> "Method", kind |-> "TraitMethod", index |-> i - 1,
     receiver |-> recv, ident |-> MethodNames[i], nparams |-> np]

PlainMethodItem(i, recv, np) ==
    [item |-> "Method", kind |-> "Method", index |-> 0,
     receiver |-> recv, ident |-> MethodNames[i], nparams |-> np]

ConstructorItem(i) ==
    [item |-> "Constructor", kind |-> "Constructor", index |-> 0,
     receiver |-> FALSE, ident |-> MethodNames[i], nparams |-> 0]

ItemVariants(i) ==
    {TraitMethodItem(i, r, np) : r \in BOOLEAN, np \in ParamCounts}
        \cup {PlainMethodItem(i, r, np) : r \in BOOLEAN, np \in ParamCounts}
        \cup {ConstructorItem(i)}

ItemSeqs ==
    UNION { { s \in [1..n -> UNION {ItemVariants(i) : i \in 1..n}] :
                \A i \in 1..n : s[i] \in ItemVariants(i) } : n \in 0..MaxMethods }

\* ::uniffi::IDX_CALLBACK_FREE
IDX_CALLBACK_FREE == 0

NoMethod == [ident |-> "", index |-> 0, nparams |-> 0]

\* gen_method_impl without the "+ 1"
gen_method_impl_zero_based(sig) ==
    IF sig.kind # "TraitMethod"
    THEN [tag |-> "Err", err |-> "unexpected function kind", method |-> NoMethod]
    ELSE IF ~sig.receiver
    THEN [tag |-> "Err", err |-> "must take &self", method |-> NoMethod]
    ELSE [tag |-> "Ok", err |-> "",
          method |-> [ident |-> sig.ident, index |-> sig.index, nparams |-> sig.nparams]]

\* gen_method_impl without the receiver check
gen_method_impl_no_receiver_check(sig) ==
    IF sig.kind # "TraitMethod"
    THEN [tag |-> "Err", err |-> "unexpected function kind", method |-> NoMethod]
    ELSE [tag |-> "Ok", err |-> "",
          method |-> [ident |-> sig.ident, index |-> sig.index + 1, nparams |-> sig.nparams]]

\* gen_method_impl(sig, internals_ident)
gen_method_impl(sig) ==
    IF sig.kind # "TraitMethod"
    THEN [tag |-> "Err", err |-> "unexpected function kind", method |-> NoMethod]
    ELSE IF ~sig.receiver
    THEN [tag |-> "Err", err |-> "must take &self", method |-> NoMethod]
    ELSE [tag |-> "Ok", err |-> "",
          method |-> [ident |-> sig.ident, index |-> sig.index + 1, nparams |-> sig.nparams]]

\* items.iter().map(..).collect::<syn::Result<TokenStream>>(): the items are
\* taken in order and the first Err (or the unreachable!() of a non-method
\* item) ends the iteration
RECURSIVE collect_methods(_, _)
collect_methods(its, acc) ==
    IF its = <<>>
    THEN [tag |-> "Ok", err |-> "", methods |-> acc]
    ELSE IF Head(its).item # "Method"
    THEN [tag |-> "Panic", err |-> "traits have no constructors", methods |-> <<>>]
    ELSE LET r == gen_method_impl(Head(its)) IN
         IF r.tag = "Err"
         THEN [tag |-> "Err", err |-> r.err, methods |-> <<>>]
         ELSE collect_methods(Tail(its), Append(acc, r.method))

\* trait_impl(ident, trait_ident, internals_ident, items): on Ok the proxy
\* struct with one forwarding method per item
trait_impl(its) == collect_methods(its, <<>>)

NotExpanded == [tag |-> "None", err |-> "", methods |-> <<>>]

ModulePath == "crate_mod"
TraitName  == "Callback"

\* MetadataBuffer::from_code(CALLBACK_INTERFACE).concat_str(module_path).concat_str(trait_name)
callback_interface_items(module_path, trait_name) ==
    [code |-> "CALLBACK_INTERFACE", strs |-> <<module_path, trait_name>>, nargs |-> 0]

\* FnSignature::metadata_items(): the metadata item of one method
sig_metadata_items(sig) ==
    [code |-> "METHOD", strs |-> <<sig.ident>>, nargs |-> sig.nparams]

RECURSIVE method_metadata(_)
method_metadata(its) ==
    IF its = <<>>
    THEN [tag |-> "Ok", list |-> <<>>]
    ELSE IF Head(its).item # "Method"
    THEN [tag |-> "Panic", list |-> <<>>]
    ELSE LET rest == method_metadata(Tail(its)) IN
         IF rest.tag # "Ok" THEN rest
         ELSE [tag |-> "Ok", list |-> <<sig_metadata_items(Head(its))>> \o rest.list]

\* metadata_items with the interface item last
metadata_items_interface_last(self_ident, its, module_path) ==
    LET ms == method_metadata(its) IN
    IF ms.tag # "Ok" THEN ms
    ELSE [tag |-> "Ok",
          list |-> ms.list \o <<callback_interface_items(module_path, self_ident)>>]

\* metadata_items(self_ident, items, module_path)
metadata_items(self_ident, its, module_path) ==
    LET ms == method_metadata(its) IN
    IF ms.tag # "Ok" THEN ms
    ELSE [tag |-> "Ok",
          list |-> <<callback_interface_items(module_path, self_ident)>> \o ms.list]

NoMetadata == [tag |-> "None", list |-> <<>>]

(***************************************************************************)
(* The generated code.                                                     *)
(***************************************************************************)

\* new that leaves the handle at its default
new_default(handle) == [handle |-> U64(0)]

\* <#ident>::new(handle)
new(handle) == [handle |-> handle]

\* FfiConverter::try_lift(v): Ok(Box::new(<#trait_impl_ident>::new(v)))
try_lift(v) == [ok |-> TRUE, obj |-> new(v)]

\* FfiConverter::try_read that reads without checking what remains
try_read_unchecked(buf) ==
    LET padded == buf \o [i \in 1..8 |-> 0] IN
    [ok |-> TRUE, obj |-> try_lift(get_u64(padded)).obj,
     buf |-> IF Len(buf) >= 8 THEN SubSeq(buf, 9, Len(buf)) ELSE <<>>]

\* FfiConverter::try_read(buf): the result and the buffer left behind
try_read(buf) ==
    IF ~check_remaining(buf, 8)
    THEN [ok |-> FALSE, obj |-> new(U64(0)), buf |-> buf]
    ELSE LET r == try_lift(get_u64(buf)) IN
         [ok |-> r.ok, obj |-> r.obj, buf |-> SubSeq(buf, 9, Len(buf))]

\* FfiConverter::lower that hands the handle back
lower_returning_handle(obj) == [panic |-> FALSE, value |-> obj.handle]

\* FfiConverter::lower(_obj): panic!("Lowering CallbackInterface not supported")
lower(obj) == [panic |-> TRUE, value |-> <<>>]

\* FfiConverter::write(_obj, _buf): panic!("Writing CallbackInterface not supported")
write(obj, buf) == [panic |-> TRUE, buf |-> buf]

\* a u32 written big-endian (the fixed-width integer rule of the call buffer)
write_u32(v) ==
    << (v \div 16777216) % 256, (v \div 65536) % 256, (v \div 256) % 256, v % 256 >>

read_u32(buf) ==
    buf[1] * 16777216 + buf[2] * 65536 + buf[3] * 256 + buf[4]

\* sig.write_exprs(&buf_ident): every parameter written to the buffer, in
\* declaration order
RECURSIVE write_exprs(_)
write_exprs(args) ==
    IF args = <<>> THEN <<>> ELSE write_u32(Head(args)) \o write_exprs(Tail(args))

RECURSIVE read_args(_)
read_args(buf) ==
    IF Len(buf) < 4 THEN <<>>
    ELSE <<read_u32(buf)>> \o read_args(SubSeq(buf, 5, Len(buf)))

\* the foreign implementation of the interface: a deterministic function of
\* the method and of the arguments it decodes, sensitive to their order
RECURSIVE Weighted(_, _)
Weighted(vals, k) ==
    IF vals = <<>> THEN 0 ELSE k * Head(vals) + Weighted(Tail(vals), k + 1)

ForeignImpl(method_index, args) ==
    write_u32(1000 * method_index + Weighted(read_args(args), 1))

ForeignBytes(status, method_index, args) ==
    CASE status = "SUCCESS" -> ForeignImpl(method_index, args)
      [] status = "ERROR" -> write_u32(method_index)
      [] OTHER -> <<>>

\* invoke_callback's result for the caller: the free call's status is not
\* inspected; a method's return buffer is decoded on SUCCESS, an ERROR or an
\* UNEXPECTED_FAILURE is surfaced for that call
lift_result(method_index, status, bytes) ==
    IF method_index = IDX_CALLBACK_FREE THEN [tag |-> "Unit", value |-> 0]
    ELSE CASE status = "SUCCESS" -> [tag |-> "Ok", value |-> read_u32(bytes)]
           [] status = "ERROR" -> [tag |-> "DispatchError", value |-> read_u32(bytes)]
           [] OTHER -> [tag |-> "UnexpectedFailure", value |-> 0]

Pending == [tag |-> "Pending", value |-> 0]

(***************************************************************************)
(* State.                                                                  *)
(***************************************************************************)
VARIABLES
    items,      \* the ImplItems of the exported trait
    macro_pc,   \* position of the expansion
    generated,  \* what trait_impl returned
    metadata,   \* what metadata_items returned
    proxies,    \* the proxies try_lift / try_read were asked for, in order
    calls,      \* per proxy: the invoke_callback calls it issued, in order
    pc,         \* per thread: position inside a generated method
    frame,      \* per thread: the locals of the method it runs
    rbuf,       \* the buffer handed to try_read
    readOut,    \* outcome of the last try_read
    wbuf        \* the buffer handed to write

vars == <<items, macro_pc, generated, metadata, proxies, calls, pc, frame,
          rbuf, readOut, wbuf>>

IdleFrame == [proxy |-> 0, m |-> 0, sent |-> <<>>, buf |-> <<>>, slot |-> 0]

NoRead == [tag |-> "None", before |-> <<>>, had |-> 0]

\* a trait of n methods that all take &self
Interface(n) == [i \in 1..n |-> TraitMethodItem(i, TRUE, DeclaredParams(i))]

\* the macro has run on a trait of one method; any number of proxies follows
Init ==
    /\ items = Interface(1)
    /\ macro_pc = "expanded"
    /\ generated = trait_impl(items)
    /\ metadata = metadata_items(TraitName, items, ModulePath)
    /\ proxies = <<>>
    /\ calls = <<>>
    /\ pc = [t \in Threads |-> "idle"]
    /\ frame = [t \in Threads |-> IdleFrame]
    /\ rbuf = <<>>
    /\ readOut = NoRead
    /\ wbuf = <<>>

(***************************************************************************)
(* Expansion of the macro on the trait.                                    *)
(***************************************************************************)
TraitImpl ==
    /\ macro_pc = "trait_impl"
    /\ generated' = trait_impl(items)
    /\ macro_pc' = "metadata_items"
    /\ UNCHANGED <<items, metadata, proxies, calls, pc, frame, rbuf, readOut, wbuf>>

MetadataItems ==
    /\ macro_pc = "metadata_items"
    /\ metadata' = metadata_items(TraitName, items, ModulePath)
    /\ macro_pc' = "expanded"
    /\ UNCHANGED <<items, generated, proxies, calls, pc, frame, rbuf, readOut, wbuf>>

\* the generated code exists only when trait_impl returned Ok
Compiled == macro_pc = "expanded" /\ generated.tag = "Ok"

(***************************************************************************)
(* Proxies.                                                                *)
(***************************************************************************)
Live(p) == p \in 1..Len(proxies) /\ proxies[p].state = "live"

Running(t) == pc[t] \in {"built", "waiting"}

InUse(p) == \E t \in Threads : Running(t) /\ frame[t].proxy = p

NewProxy(r, v) ==
    [handle |-> r.obj.handle, lifted |-> v,
     state |-> IF r.ok THEN "live" ELSE "rejected",
     via |-> "", conv |-> "", outcome |-> ""]

\* the foreign side hands a u64 over and the scaffolding lifts it
TryLift(v) ==
    /\ Compiled
    /\ Len(proxies) < MaxProxies
    /\ proxies' = Append(proxies, NewProxy(try_lift(v), v))
    /\ calls' = Append(calls, <<>>)
    /\ UNCHANGED <<items, macro_pc, generated, metadata, pc, frame,
                   rbuf, readOut, wbuf>>

\* Drop::drop forgetting the free call
drop_forgetting(self) == <<>>

\* Drop::drop(&mut self): the invoke_callback calls it makes
drop(self) ==
    << [handle |-> self.handle, method_index |-> IDX_CALLBACK_FREE, args |-> <<>>] >>

\* every call issued so far, as <<proxy, position>>
AllCalls == UNION { {<<p, i>> : i \in 1..Len(calls[p])} : p \in 1..Len(calls) }

Call(e) == calls[e[1]][e[2]]

\* the handles the foreign side has been told to release
Released == {Call(e).handle : e \in {x \in AllCalls : Call(x).method_index = IDX_CALLBACK_FREE}}

FreeEntry(p, inv, status) ==
    [kind |-> "free", decl |-> 0, sent |-> <<>>,
     handle |-> inv.handle, method_index |-> inv.method_index, args |-> inv.args,
     stale |-> FALSE, status |-> status,
     ret |-> lift_result(inv.method_index, status,
                         ForeignBytes(status, inv.method_index, inv.args))]

\* the value is destroyed: drop runs, the foreign side answers the free call
\* with `status`, and the value is gone
Destroy(p, via, conv, status) ==
    LET invs == drop(proxies[p])
        entries == [i \in 1..Len(invs) |-> FreeEntry(p, invs[i], status)]
    IN
    /\ calls' = [calls EXCEPT ![p] = @ \o entries]
    /\ proxies' = [proxies EXCEPT ![p] =
          [@ EXCEPT !.state = "dropped", !.via = via, !.conv = conv,
                    !.outcome = IF \A i \in 1..Len(entries) : entries[i].ret.tag = "Unit"
                                THEN "completed" ELSE "propagated"]]

\* Drop::drop calling the free function again when the first call failed
DropRetrying(p) ==
    /\ Live(p) /\ ~InUse(p)
    /\ \E status \in Statuses :
         LET e == FreeEntry(p, drop(proxies[p])[1], status) IN
         /\ calls' = [calls EXCEPT ![p] = IF status = "SUCCESS" THEN Append(@, e)
                                                               ELSE @ \o <<e, e>>]
         /\ proxies' = [proxies EXCEPT ![p] =
               [@ EXCEPT !.state = "dropped", !.via = "scope", !.outcome = "completed"]]
    /\ UNCHANGED <<items, macro_pc, generated, metadata, pc, frame, rbuf, readOut, wbuf>>

\* the owner lets the proxy go: impl Drop for #ident
Drop(p) ==
    /\ Live(p) /\ ~InUse(p)
    /\ \E status \in Statuses : Destroy(p, "scope", "", status)
    /\ UNCHANGED <<items, macro_pc, generated, metadata, pc, frame, rbuf, readOut, wbuf>>

\* FfiConverter::lower(obj): obj is moved in, and dropped when the panic unwinds
Lower(p) ==
    /\ Live(p) /\ ~InUse(p)
    /\ LET r == lower(proxies[p]) IN
       \E status \in Statuses :
          Destroy(p, "lower", IF r.panic THEN "panic" ELSE "returned", status)
    /\ UNCHANGED <<items, macro_pc, generated, metadata, pc, frame, rbuf, readOut, wbuf>>

\* FfiConverter::write(obj, buf): obj is moved in, and dropped when the panic unwinds
Write(p) ==
    /\ Live(p) /\ ~InUse(p)
    /\ LET r == write(proxies[p], wbuf) IN
       /\ wbuf' = r.buf
       /\ \E status \in Statuses :
            Destroy(p, "write", IF r.panic THEN "panic" ELSE "returned", status)
    /\ UNCHANGED <<items, macro_pc, generated, metadata, pc, frame, rbuf, readOut>>

(***************************************************************************)
(* A generated method, run by a thread that holds a reference to the proxy:*)
(*     fn #ident(&self, params) -> #return_ty {                            *)
(*         let mut uniffi_args_buf = Vec::new();                           *)
(*         write_exprs;                                                    *)
(*         let uniffi_args_rbuf = RustBuffer::from_vec(uniffi_args_buf);   *)
(*         invoke_callback(self.handle, #index, uniffi_args_rbuf)          *)
(*     }                                                                   *)
(***************************************************************************)
MethodEntries == {e \in AllCalls : Call(e).kind = "method"}

\* the arguments of a call: every caller tags its call with a sentinel of its
\* own, and the parameters of one call differ from each other
Sentinel(t) == IF t = "t1" THEN 1 ELSE 2

Arguments(t, nparams) == [i \in 1..nparams |-> 16 * Sentinel(t) + i]

\* the caller enters method m of proxy p; the arguments are written to the
\* local buffer
MethodCall(t, p, m) ==
    /\ Compiled
    /\ pc[t] = "idle"
    /\ Live(p)
    /\ frame' = [frame EXCEPT ![t] =
          [IdleFrame EXCEPT !.proxy = p, !.m = m,
                            !.sent = Arguments(t, generated.methods[m].nparams),
                            !.buf = write_exprs(Arguments(t, generated.methods[m].nparams))]]
    /\ pc' = [pc EXCEPT ![t] = "built"]
    /\ UNCHANGED <<items, macro_pc, generated, metadata, proxies, calls,
                   rbuf, readOut, wbuf>>

MethodEntry(t, buf) ==
    [kind |-> "method", decl |-> frame[t].m - 1, sent |-> frame[t].sent,
     handle |-> proxies[frame[t].proxy].handle,
     method_index |-> generated.methods[frame[t].m].index,
     args |-> buf, stale |-> proxies[frame[t].proxy].handle \in Released,
     status |-> "", ret |-> Pending]

\* the call crosses the boundary with a buffer another call has built
InvokeCrossed(t) ==
    /\ pc[t] = "built"
    /\ \E u \in Threads :
         /\ pc[u] = "built"
         /\ (u = t => \A w \in Threads \ {t} : pc[w] # "built")
         /\ calls' = [calls EXCEPT ![frame[t].proxy] = Append(@, MethodEntry(t, frame[u].buf))]
    /\ frame' = [frame EXCEPT ![t].slot = Len(calls[frame[t].proxy]) + 1]
    /\ pc' = [pc EXCEPT ![t] = "waiting"]
    /\ UNCHANGED <<items, macro_pc, generated, metadata, proxies, rbuf, readOut, wbuf>>

\* invoke_callback(self.handle, #index, uniffi_args_rbuf): the call crosses
\* the boundary
Invoke(t) ==
    /\ pc[t] = "built"
    /\ calls' = [calls EXCEPT ![frame[t].proxy] = Append(@, MethodEntry(t, frame[t].buf))]
    /\ frame' = [frame EXCEPT ![t].slot = Len(calls[frame[t].proxy]) + 1]
    /\ pc' = [pc EXCEPT ![t] = "waiting"]
    /\ UNCHANGED <<items, macro_pc, generated, metadata, proxies, rbuf, readOut, wbuf>>

\* the foreign side's answer to a call: a released handle is no longer
\* found, so a call on it cannot succeed
CanAnswer(c, status) == status = "SUCCESS" => ~c.stale

\* a method that frees the handle when the call failed
MethodReturnFreeing(t, status) ==
    /\ pc[t] = "waiting"
    /\ LET f == frame[t]
           c == calls[f.proxy][f.slot]
           done == [calls EXCEPT ![f.proxy][f.slot].status = status,
                                 ![f.proxy][f.slot].ret =
                                      lift_result(c.method_index, status,
                                          ForeignBytes(status, c.method_index, c.args))]
       IN
       /\ CanAnswer(c, status)
       /\ IF status = "SUCCESS"
          THEN calls' = done /\ proxies' = proxies
          ELSE /\ calls' = [done EXCEPT ![f.proxy] =
                               Append(@, FreeEntry(f.proxy, drop(proxies[f.proxy])[1], "SUCCESS"))]
               /\ proxies' = [proxies EXCEPT ![f.proxy].handle = U64(0)]
    /\ frame' = [frame EXCEPT ![t] = IdleFrame]
    /\ pc' = [pc EXCEPT ![t] = "done"]
    /\ UNCHANGED <<items, macro_pc, generated, metadata, rbuf, readOut, wbuf>>

\* the foreign side answers with `status`, invoke_callback returns and the
\* method hands its result to the caller
MethodReturn(t, status) ==
    /\ pc[t] = "waiting"
    /\ LET f == frame[t]
           c == calls[f.proxy][f.slot]
       IN
       /\ CanAnswer(c, status)
       /\ calls' = [calls EXCEPT ![f.proxy][f.slot].status = status,
                                 ![f.proxy][f.slot].ret =
                                      lift_result(c.method_index, status,
                                          ForeignBytes(status, c.method_index, c.args))]
    /\ frame' = [frame EXCEPT ![t] = IdleFrame]
    /\ pc' = [pc EXCEPT ![t] = "done"]
    /\ UNCHANGED <<items, macro_pc, generated, metadata, proxies, rbuf, readOut, wbuf>>

(***************************************************************************)
(* try_read on every buffer.                                               *)
(***************************************************************************)
Buffers == UNION { [1..n -> ByteValues] : n \in 0..MaxBufLen }

InitCodec ==
    /\ items = Interface(1)
    /\ macro_pc = "expanded"
    /\ generated = trait_impl(items)
    /\ metadata = metadata_items(TraitName, items, ModulePath)
    /\ proxies = <<>>
    /\ calls = <<>>
    /\ pc = [t \in Threads |-> "idle"]
    /\ frame = [t \in Threads |-> IdleFrame]
    /\ rbuf \in Buffers
    /\ readOut = NoRead
    /\ wbuf = <<>>

\* the scaffolding reads a callback interface out of the buffer
TryRead ==
    /\ Compiled
    /\ readOut.tag # "Err"
    /\ Len(proxies) < MaxProxies
    /\ LET r == try_read(rbuf) IN
       /\ rbuf' = r.buf
       /\ IF r.ok
          THEN /\ proxies' = Append(proxies, NewProxy(r, r.obj.handle))
               /\ calls' = Append(calls, <<>>)
               /\ readOut' = [tag |-> "Ok", before |-> rbuf, had |-> Len(proxies)]
          ELSE /\ proxies' = proxies
               /\ calls' = calls
               /\ readOut' = [tag |-> "Err", before |-> rbuf, had |-> Len(proxies)]
    /\ UNCHANGED <<items, macro_pc, generated, metadata, pc, frame, wbuf>>

(***************************************************************************)
(* Specifications.                                                         *)
(***************************************************************************)
Next ==
    \/ \E v \in LiftValues : TryLift(v)
    \/ \E p \in 1..MaxProxies : Drop(p)
    \/ \E t \in Threads, p \in 1..MaxProxies :
         \E m \in 1..Len(generated.methods) : MethodCall(t, p, m)
    \/ \E t \in Threads : Invoke(t)
    \/ \E t \in Threads, status \in Statuses : MethodReturn(t, status)

Spec == Init /\ [][Next]_vars

\* calls on one proxy, of every accepted trait of up to MaxMethods methods
InitCalls ==
    /\ items \in {Interface(n) : n \in 0..MaxMethods}
    /\ macro_pc = "expanded"
    /\ generated = trait_impl(items)
    /\ metadata = metadata_items(TraitName, items, ModulePath)
    /\ \E v \in LiftValues : proxies = <<NewProxy(try_lift(v), v)>>
    /\ calls = << <<>> >>
    /\ pc = [t \in Threads |-> "idle"]
    /\ frame = [t \in Threads |-> IdleFrame]
    /\ rbuf = <<>>
    /\ readOut = NoRead
    /\ wbuf = <<>>

NextCalls ==
    \/ \E p \in 1..MaxProxies : Drop(p)
    \/ \E t \in Threads, p \in 1..MaxProxies :
         \E m \in 1..Len(generated.methods) : MethodCall(t, p, m)
    \/ \E t \in Threads : Invoke(t)
    \/ \E t \in Threads, status \in Statuses : MethodReturn(t, status)

SpecCalls == InitCalls /\ [][NextCalls]_vars

\* the macro on every trait
InitMacro ==
    /\ items \in ItemSeqs
    /\ macro_pc = "trait_impl"
    /\ generated = NotExpanded
    /\ metadata = NoMetadata
    /\ proxies = <<>>
    /\ calls = <<>>
    /\ pc = [t \in Threads |-> "idle"]
    /\ frame = [t \in Threads |-> IdleFrame]
    /\ rbuf = <<>>
    /\ readOut = NoRead
    /\ wbuf = <<>>

NextMacro ==
    \/ TraitImpl
    \/ MetadataItems
    \/ \E v \in LiftValues : TryLift(v)

SpecMacro == InitMacro /\ [][NextMacro]_vars

\* the converter's lower, write and try_lift, on an expanded interface
InitConv ==
    /\ items \in {Interface(n) : n \in 0..MaxMethods}
    /\ macro_pc = "expanded"
    /\ generated = trait_impl(items)
    /\ metadata = metadata_items(TraitName, items, ModulePath)
    /\ proxies = <<>>
    /\ calls = <<>>
    /\ pc = [t \in Threads |-> "idle"]
    /\ frame = [t \in Threads |-> IdleFrame]
    /\ rbuf = <<>>
    /\ readOut = NoRead
    /\ wbuf = <<>>

NextConv ==
    \/ \E v \in LiftValues : TryLift(v)
    \/ \E p \in 1..MaxProxies : Drop(p)
    \/ \E p \in 1..MaxProxies : Lower(p)
    \/ \E p \in 1..MaxProxies : Write(p)

SpecConv == InitConv /\ [][NextConv]_vars

NextCodec ==
    \/ TryRead
    \/ \E p \in 1..MaxProxies : Drop(p)

SpecCodec == InitCodec /\ [][NextCodec]_vars

(***************************************************************************)
(* Properties.                                                             *)
(***************************************************************************)
Entries(p) == 1..Len(calls[p])

FreeCalls(p) == {i \in Entries(p) : calls[p][i].method_index = 0}

FreeCallsOn(h) == {e \in AllCalls : Call(e).method_index = 0 /\ Call(e).handle = h}

MethodCallsOn(h) == {e \in AllCalls : Call(e).method_index # 0 /\ Call(e).handle = h}

LiftedFrom(h) == {p \in 1..Len(proxies) : proxies[p].lifted = h}

Failed(tag) == tag \in {"DispatchError", "UnexpectedFailure"}

\* C1: the proxy method generated for the item at declaration index i calls
\* invoke_callback with method_index i + 1, so the methods of an interface of
\* N items use exactly 1..N; index 0 is used by the free call of drop and by
\* no method.
C1_IndexMapping ==
    /\ generated.tag = "Ok" =>
          /\ Len(generated.methods) = Len(items)
          /\ \A i \in 1..Len(items) : generated.methods[i].index = (i - 1) + 1
    /\ \A e \in AllCalls :
          /\ Call(e).kind = "method" =>
                /\ Call(e).method_index = Call(e).decl + 1
                /\ Call(e).method_index \in 1..Len(items)
          /\ Call(e).kind = "free" => Call(e).method_index = 0
          /\ Call(e).method_index = 0 => Call(e).kind = "free"

C1_Witness ==
    /\ \E e \in AllCalls :
          Call(e).kind = "method" /\ Call(e).decl = 1 /\ Call(e).method_index = 2
    /\ \E e \in AllCalls : Call(e).kind = "free"

\* C2: a destroyed proxy has issued exactly one invoke_callback with
\* method_index 0, carrying the handle it was constructed with and an empty
\* buffer, after every other call it issued; a proxy that is not destroyed has
\* issued none, and no method runs on a destroyed proxy.
C2_ExactlyOneFree ==
    /\ \A p \in 1..Len(proxies) :
          IF proxies[p].state = "dropped"
          THEN /\ Cardinality(FreeCalls(p)) = 1
               /\ \A i \in FreeCalls(p) :
                     /\ calls[p][i].handle = proxies[p].lifted
                     /\ calls[p][i].args = <<>>
                     /\ i = Len(calls[p])
          ELSE FreeCalls(p) = {}
    /\ \A t \in Threads : Running(t) => proxies[frame[t].proxy].state = "live"

C2_Witness ==
    \E p \in 1..Len(proxies) :
        /\ proxies[p].state = "dropped"
        /\ \E i \in FreeCalls(p), j \in Entries(p) :
              j < i /\ calls[p][j].method_index # 0 /\ calls[p][j].ret # Pending

\* C3 as stated: for every handle value the free call is issued at most once,
\* and no method call is dispatched on a handle after a free call for it.
C3_FreeOncePerHandle ==
    \A h \in LiftValues :
        /\ Cardinality(FreeCallsOn(h)) <= 1
        /\ \A e \in MethodCallsOn(h) : ~Call(e).stale

\* C3 amended: the free calls issued for a handle value are as many as the
\* destroyed proxies that were lifted from it; when the value was lifted at
\* most once, the free call is issued at most once for it and no method call
\* is dispatched on it after the free call.
C3_FreeOncePerProxy ==
    \A h \in LiftValues :
        /\ Cardinality(FreeCallsOn(h))
              = Cardinality({p \in LiftedFrom(h) : proxies[p].state = "dropped"})
        /\ Cardinality(LiftedFrom(h)) <= 1 =>
              /\ Cardinality(FreeCallsOn(h)) <= 1
              /\ \A e \in MethodCallsOn(h) : ~Call(e).stale

C3_Witness ==
    \E h \in LiftValues :
        /\ Cardinality(LiftedFrom(h)) = 1
        /\ Cardinality(FreeCallsOn(h)) = 1
        /\ MethodCallsOn(h) # {}
        /\ Len(proxies) = 2

ExpectedValue(c) == 1000 * (c.decl + 1) + Weighted(c.sent, 1)

ExpectedArgs(c) ==
    [i \in 1..(4 * Len(c.sent)) |->
        IF i % 4 = 0 THEN c.sent[i \div 4] ELSE 0]

\* C5: under every interleaving of the threads, each call passes to
\* invoke_callback the proxy's handle and a buffer holding its own arguments
\* and nothing else, in declaration order, and returns to its caller the
\* result of that same invocation.
C5_NoCrossTalk ==
    /\ \A t \in Threads : Running(t) => frame[t].buf = ExpectedArgs(frame[t])
    /\ \A e \in MethodEntries :
          /\ Call(e).args = ExpectedArgs(Call(e))
          /\ Call(e).handle = proxies[e[1]].handle
          /\ Call(e).ret # Pending =>
                CASE Call(e).status = "SUCCESS" ->
                        Call(e).ret = [tag |-> "Ok", value |-> ExpectedValue(Call(e))]
                  [] Call(e).status = "ERROR" -> Call(e).ret.tag = "DispatchError"
                  [] OTHER -> Call(e).ret.tag = "UnexpectedFailure"

\* two calls on one proxy overlap: one is still inside invoke_callback while
\* a call dispatched after it has already returned its own value
C5_Witness ==
    \E t \in Threads :
        /\ pc[t] = "waiting"
        /\ \E k \in Entries(frame[t].proxy) :
              /\ k > frame[t].slot
              /\ calls[frame[t].proxy][k].ret.tag = "Ok"
              /\ calls[frame[t].proxy][k].args # frame[t].buf

\* C6: a method call that ends in a DispatchError or an unexpected failure
\* leaves the proxy as it was: the handle keeps its value and no call (so no
\* free call) is issued because of the failure; later calls on the proxy are
\* dispatched with the same handle.
C6_FailureLeavesProxy ==
    [][ \A t \in Threads :
          (pc[t] = "waiting" /\ pc'[t] = "done"
              /\ calls'[frame[t].proxy][frame[t].slot].status # "SUCCESS") =>
              /\ proxies' = proxies
              /\ \A p \in 1..Len(calls) : Len(calls'[p]) = Len(calls[p])
              /\ Failed(calls'[frame[t].proxy][frame[t].slot].ret.tag) ]_vars

\* a call on the proxy failed and returned; a call entered after that was
\* dispatched with the same handle and succeeded
C6_Witness ==
    \E p \in 1..Len(proxies) : \E k1 \in Entries(p), k2 \in Entries(p) :
        /\ k1 < k2
        /\ Failed(calls[p][k1].ret.tag)
        /\ calls[p][k2].ret.tag = "Ok"
        /\ calls[p][k2].handle = calls[p][k1].handle
        /\ proxies[p].state = "live"

\* C7: an interface with a method that has no receiver is rejected when it is
\* defined: gen_method_impl returns an error for that method, trait_impl does
\* not return a proxy type, and so nothing is lifted or called; an interface
\* whose items are all trait methods with a receiver yields a proxy with one
\* method per item.
C7_ReceiverRequired ==
    macro_pc # "trait_impl" =>
        /\ \A i \in 1..Len(items) :
              (items[i].item = "Method" /\ ~items[i].receiver) =>
                  /\ gen_method_impl(items[i]).tag = "Err"
                  /\ generated.tag \in {"Err", "Panic"}
                  /\ generated.methods = <<>>
                  /\ proxies = <<>> /\ AllCalls = {}
        /\ (\A i \in 1..Len(items) :
               items[i].item = "Method" /\ items[i].kind = "TraitMethod"
                   /\ items[i].receiver) =>
              /\ generated.tag = "Ok"
              /\ Len(generated.methods) = Len(items)
              /\ \A i \in 1..Len(items) : generated.methods[i].ident = items[i].ident

C7_Witness ==
    /\ macro_pc = "expanded"
    /\ Len(items) = 2
    /\ items[1] = TraitMethodItem(1, TRUE, 1)
    /\ items[2] = TraitMethodItem(2, FALSE, 2)
    /\ generated.tag = "Err"
    /\ generated.err = "must take &self"

\* C8: try_read fails without consuming a byte and without creating a proxy
\* when fewer than 8 bytes remain; otherwise it consumes exactly the first 8
\* bytes and returns a proxy whose handle is their big-endian value.
C8_TryRead ==
    /\ readOut.tag # "None" => (readOut.tag = "Err" <=> Len(readOut.before) < 8)
    /\ readOut.tag = "Err" =>
          /\ rbuf = readOut.before
          /\ Len(proxies) = readOut.had
    /\ readOut.tag = "Ok" =>
          /\ Len(rbuf) = Len(readOut.before) - 8
          /\ \A i \in 1..Len(rbuf) : rbuf[i] = readOut.before[i + 8]
          /\ Len(proxies) = readOut.had + 1
          /\ proxies[Len(proxies)].state # "rejected"
          /\ \A j \in 1..4 :
                proxies[Len(proxies)].handle[j]
                    = readOut.before[2 * j - 1] * 256 + readOut.before[2 * j]

\* a first read took 8 of 9 bytes, a second read failed on the byte left
C8_Witness ==
    /\ readOut.tag = "Err"
    /\ Len(readOut.before) = 1
    /\ Len(proxies) = 1
    /\ proxies[1].handle = <<1, 255, 0, 511>>

C10_OneDirectional ==
    /\ wbuf = <<>>
    /\ \A p \in 1..Len(proxies) :
          /\ proxies[p].via \in {"lower", "write"} => proxies[p].conv = "panic"
          /\ proxies[p].state # "rejected"
          /\ proxies[p].handle = proxies[p].lifted

C10_Witness ==
    /\ Len(proxies) = 2
    /\ proxies[1].via = "lower" /\ proxies[1].conv = "panic"
    /\ proxies[1].lifted = U64(0)
    /\ proxies[2].via = "write" /\ proxies[2].conv = "panic"

====
